---- MODULE Spec2Model ----
(***************************************************************************)
(* Model of src/pages.config.ts: the page metadata registry (pagesConfig)  *)
(* and the four content collection schemas (projects, journey, uses,       *)
(* testimonials) declared with zod through astro:content.                  *)
(*                                                                         *)
(* A schema is modelled as data (a record naming the zod constructor and   *)
(* its arguments) and zod's safeParse as a recursive interpreter over it.  *)
(***************************************************************************)
EXTENDS Integers, Sequences, FiniteSets, TLC

VARIABLES
    registry,   \* the pagesConfig object
    lookups,    \* the page identifiers read so far, oldest first
    kind,       \* the collection of the record validated last ("none" at start)
    raw,        \* the raw record validated last
    result,     \* the outcome of validating it
    batch,      \* the entries the loader has handed over, in arrival order
    outcomes    \* outcomes[i]: the outcome of batch[i], or Pending

vars == <<registry, lookups, kind, raw, result, batch, outcomes>>

---------------------------------------------------------------------------
(* Raw values.  The tag t is the parsed type zod derives from a JavaScript *)
(* value (getParsedType); each tag has its own payload field.              *)

Undefined == [t |-> "undefined"]
Null      == [t |-> "null"]
Str(s)    == [t |-> "string", s |-> s]
Bool(b)   == [t |-> "boolean", b |-> b]
Arr(a)    == [t |-> "array", a |-> a]
Obj(o)    == [t |-> "object", o |-> o]
\* a finite number num/den in lowest terms; den = 0 stands for Infinity
Num(n, d) == [t |-> "number", num |-> n, den |-> d]
Int1(n)   == Num(n, 1)
NaN       == [t |-> "nan"]
\* a Date object: whole days since 1970-01-01 UTC and the milliseconds within the day
DateVal(days, ms) == [t |-> "date", days |-> days, ms |-> ms]
InvalidDate == [t |-> "date", invalid |-> TRUE]

MsPerDay == 24 * 60 * 60 * 1000

---------------------------------------------------------------------------
(* The JavaScript built-ins zod calls: new URL(s) and new Date(x).         *)

\* The sample strings new URL(s) accepts: it throws unless s begins with a
\* scheme ("not-a-url", a host without scheme and a relative path all throw).
WellFormedUrls ==
    { "https://github.com/KennethAbadi/ken-portfolio",
      "https://linkedin.com/in/kennethputra",
      "https://astro.build",
      "mailto:kenneth.putra25@gmail.com" }

UrlParses(s) == s \in WellFormedUrls

\* Days from 1970-01-01 to the civil date y-m-d (proleptic Gregorian), y >= 1970.
IsLeap(y) == (y % 4 = 0 /\ y % 100 # 0) \/ y % 400 = 0

DaysInMonth(y, m) ==
    IF m = 2 THEN (IF IsLeap(y) THEN 29 ELSE 28)
    ELSE IF m \in {4, 6, 9, 11} THEN 30 ELSE 31

RECURSIVE DaysBeforeYear(_)
DaysBeforeYear(y) ==
    IF y <= 1970 THEN 0
    ELSE DaysBeforeYear(y - 1) + (IF IsLeap(y - 1) THEN 366 ELSE 365)

RECURSIVE DaysBeforeMonth(_, _)
DaysBeforeMonth(y, m) ==
    IF m <= 1 THEN 0 ELSE DaysBeforeMonth(y, m - 1) + DaysInMonth(y, m - 1)

DaysFromCivil(y, m, d) == DaysBeforeYear(y) + DaysBeforeMonth(y, m) + (d - 1)

\* The date-only ISO forms among the sample strings, as <<year, month, day>>;
\* Date.parse reads them as midnight UTC.  <<0, 0, 0>>: not a date string.
IsoFields(s) ==
    CASE s = "2023-05-01" -> <<2023, 5, 1>>
      [] s = "2023-05"    -> <<2023, 5, 1>>
      [] s = "2023"       -> <<2023, 1, 1>>
      [] s = "1970-01-01" -> <<1970, 1, 1>>
      [] s = "2023-13-01" -> <<2023, 13, 1>>
      [] OTHER            -> <<0, 0, 0>>

DateParse(s) ==
    LET f == IsoFields(s) IN
    IF f[1] >= 1970 /\ f[2] \in 1..12 /\ f[3] \in 1..DaysInMonth(f[1], f[2])
    THEN DateVal(DaysFromCivil(f[1], f[2], f[3]), 0)
    ELSE InvalidDate

\* ToIntegerOrInfinity of a finite number: truncation towards zero
Trunc(n, d) == IF n >= 0 THEN n \div d ELSE -((-n) \div d)

DateFromMs(ms) == DateVal(ms \div MsPerDay, ms % MsPerDay)

\* String(x) for the one-element arrays new Date receives (Array.prototype.join)
ElemToString(v) ==
    CASE v.t = "string" -> v.s
      [] v.t = "number" /\ v.den = 1 -> ToString(v.num)
      [] OTHER -> "[object]"

\* new Date(v)
NewDate(v) ==
    CASE v.t = "undefined" -> InvalidDate
      [] v.t = "null"      -> DateFromMs(0)
      [] v.t = "boolean"   -> DateFromMs(IF v.b THEN 1 ELSE 0)
      [] v.t = "number"    -> IF v.den = 0 THEN InvalidDate
                              ELSE DateFromMs(Trunc(v.num, v.den))
      [] v.t = "nan"       -> InvalidDate
      [] v.t = "string"    -> DateParse(v.s)
      [] v.t = "date"      -> v
      [] v.t = "array"     -> IF Len(v.a) = 1 THEN DateParse(ElemToString(v.a[1]))
                              ELSE InvalidDate
      [] OTHER             -> InvalidDate

---------------------------------------------------------------------------
(* zod schemas as data.                                                    *)

ZString       == [type |-> "string", checks |-> {}]
ZUrl          == [type |-> "string", checks |-> {"url"}]
ZNumber       == [type |-> "number"]
ZBoolean      == [type |-> "boolean"]
ZCoerceDate   == [type |-> "date", coerce |-> TRUE]
ZEnum(vs)     == [type |-> "enum", values |-> vs]
ZArray(e)     == [type |-> "array", element |-> e]
ZObject(sh)   == [type |-> "object", shape |-> sh]
ZOptional(i)  == [type |-> "optional", inner |-> i]
ZDefault(i, d) == [type |-> "default", inner |-> i, defaultValue |-> d]

StatusValues   == <<"completed", "ongoing", "archived">>
TypeValues     == <<"milestone", "learning", "transition">>
CategoryValues == <<"tools", "stack">>

projectsSchema ==
    ZObject(<<
        <<"title", ZString>>,
        <<"role", ZString>>,
        <<"year", ZNumber>>,
        <<"duration", ZOptional(ZString)>>,
        <<"teamSize", ZOptional(ZNumber)>>,
        <<"outcomeSummary", ZString>>,
        <<"overview", ZString>>,
        <<"problem", ZString>>,
        <<"constraints", ZArray(ZString)>>,
        <<"approach", ZString>>,
        <<"techStack", ZArray(ZString)>>,
        <<"impact", ZObject(<<
            <<"metrics", ZOptional(ZArray(ZObject(<<
                <<"label", ZString>>,
                <<"value", ZString>> >>)))>>,
            <<"qualitative", ZString>> >>)>>,
        <<"learnings", ZArray(ZString)>>,
        <<"featured", ZDefault(ZBoolean, Bool(FALSE))>>,
        <<"status", ZDefault(ZEnum(StatusValues), Str("completed"))>>,
        <<"order", ZOptional(ZNumber)>>,
        <<"relatedProjects", ZOptional(ZArray(ZString))>>,
        <<"githubUrl", ZOptional(ZUrl)>> >>)

journeySchema ==
    ZObject(<<
        <<"date", ZCoerceDate>>,
        <<"title", ZString>>,
        <<"type", ZEnum(TypeValues)>>,
        <<"description", ZString>>,
        <<"skills", ZOptional(ZArray(ZString))>> >>)

usesSchema ==
    ZObject(<<
        <<"category", ZEnum(CategoryValues)>>,
        <<"items", ZArray(ZObject(<<
            <<"name", ZString>>,
            <<"description", ZString>>,
            <<"url", ZOptional(ZUrl)>> >>))>>,
        <<"order", ZNumber>> >>)

testimonialsSchema ==
    ZObject(<<
        <<"name", ZString>>,
        <<"role", ZString>>,
        <<"company", ZString>>,
        <<"relationship", ZString>>,
        <<"quote", ZString>>,
        <<"linkedin", ZOptional(ZUrl)>>,
        <<"featured", ZDefault(ZBoolean, Bool(FALSE))>>,
        <<"date", ZCoerceDate>> >>)

\* the exported collections object: collection name -> schema
Kinds == {"projects", "journey", "uses", "testimonials"}

collections(k) ==
    CASE k = "projects"     -> projectsSchema
      [] k = "journey"      -> journeySchema
      [] k = "uses"         -> usesSchema
      [] k = "testimonials" -> testimonialsSchema

---------------------------------------------------------------------------
(* zod's parse: one result per schema node, the issues of all nodes        *)
(* concatenated in shape order.  A result with no issue is a success.      *)

Range(f) == {f[i] : i \in DOMAIN f}

Issue(path, code, v) == [path |-> path, code |-> code, received |-> v.t]

Ok(v)      == [issues |-> <<>>, value |-> v]
Bad(is, v) == [issues |-> is, value |-> v]

Get(o, k) == IF k \in DOMAIN o THEN o[k] ELSE Undefined

RECURSIVE parse(_, _, _)

\* ZodString with the url check lost: any string passes
ZodString_parse_noUrl(schema, v, path) ==
    IF v.t # "string" THEN Bad(<<Issue(path, "invalid_type", v)>>, v)
    ELSE Ok(v)

\* ZodString: a type test, then the url check (new URL must not throw)
ZodString_parse(schema, v, path) ==
    IF v.t # "string" THEN Bad(<<Issue(path, "invalid_type", v)>>, v)
    ELSE IF "url" \in schema.checks /\ ~UrlParses(v.s)
         THEN Bad(<<Issue(path, "invalid_string", v)>>, v)
         ELSE Ok(v)

\* ZodNumber without checks: any number but NaN
ZodNumber_parse(schema, v, path) ==
    IF v.t # "number" THEN Bad(<<Issue(path, "invalid_type", v)>>, v)
    ELSE Ok(v)

ZodBoolean_parse(schema, v, path) ==
    IF v.t # "boolean" THEN Bad(<<Issue(path, "invalid_type", v)>>, v)
    ELSE Ok(v)

\* ZodDate: with coerce the input is first replaced by new Date(input)
ZodDate_parse(schema, v, path) ==
    LET d == IF schema.coerce THEN NewDate(v) ELSE v IN
    IF d.t # "date" THEN Bad(<<Issue(path, "invalid_type", d)>>, d)
    ELSE IF d = InvalidDate THEN Bad(<<Issue(path, "invalid_date", d)>>, d)
         ELSE Ok(d)

\* an enum that falls back to its first member (as .catch would)
ZodEnum_parse_fallback(schema, v, path) ==
    IF v.t = "string" /\ v.s \in Range(schema.values) THEN Ok(v)
    ELSE Ok(Str(schema.values[1]))

ZodEnum_parse(schema, v, path) ==
    IF v.t # "string" THEN Bad(<<Issue(path, "invalid_type", v)>>, v)
    ELSE IF v.s \notin Range(schema.values)
         THEN Bad(<<Issue(path, "invalid_enum_value", v)>>, v)
         ELSE Ok(v)

RECURSIVE parseElems(_, _, _, _)
\* every element is parsed, at path + its index
parseElems(elem, a, path, i) ==
    IF i > Len(a) THEN [issues |-> <<>>, values |-> <<>>]
    ELSE LET r    == parse(elem, a[i], Append(path, ToString(i - 1)))
             rest == parseElems(elem, a, path, i + 1)
         IN  [issues |-> r.issues \o rest.issues,
              values |-> <<r.value>> \o rest.values]

ZodArray_parse(schema, v, path) ==
    IF v.t # "array" THEN Bad(<<Issue(path, "invalid_type", v)>>, v)
    ELSE LET r == parseElems(schema.element, v.a, path, 1)
         IN  [issues |-> r.issues, value |-> Arr(r.values)]

RECURSIVE parseKeys(_, _, _, _)
\* an object parse that returns at the first key with an issue
parseKeys_firstOnly(shape, o, path, i) ==
    IF i > Len(shape) THEN [issues |-> <<>>, pairs |-> <<>>]
    ELSE LET k    == shape[i][1]
             r    == parse(shape[i][2], Get(o, k), Append(path, k))
             pair == [key |-> k, value |-> r.value, alwaysSet |-> k \in DOMAIN o]
         IN  IF r.issues # <<>> THEN [issues |-> r.issues, pairs |-> <<pair>>]
             ELSE LET rest == parseKeys(shape, o, path, i + 1)
                  IN  [issues |-> rest.issues, pairs |-> <<pair>> \o rest.pairs]

\* every key of the shape is parsed, in shape order, whatever the outcome
\* of the keys before it; a pair is the key, its value and whether the data
\* had the key
parseKeys(shape, o, path, i) ==
    IF i > Len(shape) THEN [issues |-> <<>>, pairs |-> <<>>]
    ELSE LET k    == shape[i][1]
             r    == parse(shape[i][2], Get(o, k), Append(path, k))
             rest == parseKeys(shape, o, path, i + 1)
         IN  [issues |-> r.issues \o rest.issues,
              pairs  |-> <<[key |-> k, value |-> r.value,
                            alwaysSet |-> k \in DOMAIN o]>> \o rest.pairs]

\* the final object: unknown keys are stripped, and a key whose value is
\* undefined is set only when the data had the key
FinalObject(pairs) ==
    LET kept == {i \in DOMAIN pairs :
                    pairs[i].value # Undefined \/ pairs[i].alwaysSet}
    IN  [k \in {pairs[i].key : i \in kept} |->
            pairs[CHOOSE i \in kept : pairs[i].key = k].value]

ZodObject_parse(schema, v, path) ==
    IF v.t # "object" THEN Bad(<<Issue(path, "invalid_type", v)>>, v)
    ELSE LET r == parseKeys(schema.shape, v.o, path, 1)
         IN  [issues |-> r.issues, value |-> Obj(FinalObject(r.pairs))]

\* an optional that yields null for a missing value (as .nullish would read)
ZodOptional_parse_nullish(schema, v, path) ==
    IF v.t = "undefined" THEN Ok(Null)
    ELSE parse(schema.inner, v, path)

\* .optional(): undefined passes as it is
ZodOptional_parse(schema, v, path) ==
    IF v.t = "undefined" THEN Ok(Undefined)
    ELSE parse(schema.inner, v, path)

\* a default that is never applied (.optional() in place of .default(d))
ZodDefault_parse_asOptional(schema, v, path) ==
    IF v.t = "undefined" THEN Ok(Undefined)
    ELSE parse(schema.inner, v, path)

\* .default(d): undefined is replaced by d before the inner schema runs
ZodDefault_parse(schema, v, path) ==
    parse(schema.inner, IF v.t = "undefined" THEN schema.defaultValue ELSE v, path)

parse(schema, v, path) ==
    CASE schema.type = "string"   -> ZodString_parse(schema, v, path)
      [] schema.type = "number"   -> ZodNumber_parse(schema, v, path)
      [] schema.type = "boolean"  -> ZodBoolean_parse(schema, v, path)
      [] schema.type = "date"     -> ZodDate_parse(schema, v, path)
      [] schema.type = "enum"     -> ZodEnum_parse(schema, v, path)
      [] schema.type = "array"    -> ZodArray_parse(schema, v, path)
      [] schema.type = "object"   -> ZodObject_parse(schema, v, path)
      [] schema.type = "optional" -> ZodOptional_parse(schema, v, path)
      [] schema.type = "default"  -> ZodDefault_parse(schema, v, path)

\* schema.safeParse(data): the typed record, or the report of every issue
safeParse(schema, data) ==
    LET r == parse(schema, data, <<>>) IN
    IF r.issues = <<>> THEN [success |-> TRUE, data |-> r.value]
    ELSE [success |-> FALSE, error |-> r.issues]

---------------------------------------------------------------------------
(* The page metadata registry.                                             *)

PageIds == {"home", "projects", "journey", "uses", "contact"}

pagesConfig ==
    [home |->
        [title |-> "Home",
         description |-> "Engineering leader specializing in system architecture, technical decision-making, and delivering measurable business impact."],
     projects |->
        [title |-> "Projects",
         description |-> "Data analysis projects showcasing problem-solving approach, analytical methods, and measurable impact across various domains.",
         heading |-> "Projects",
         intro |-> "Projects that demonstrate how I approach data problems, apply analytical methods, and deliver actionable insights. Each project tells the story of the challenge, the data, the analysis performed, and the outcomes achieved."],
     journey |->
        [title |-> "Journey - Career Growth & Learning Timeline",
         description |-> "A chronological timeline of my professional journey, highlighting key milestones, learning moments, and career transitions that shaped my growth as a Data Analyst.",
         heading |-> "Journey",
         \* the first sentence of the intro (the rest holds non-ASCII text)
         intro |-> "A timeline of my professional growth and learning progression."],
     uses |->
        [title |-> "Uses - Tools & Tech Stack",
         description |-> "A comprehensive list of the tools and technologies I use for development work.",
         heading |-> "Uses",
         intro |-> "A transparent look at the tools and technologies that power my development workflow. This page documents what I use and why, helping other engineers discover useful tools and understand my technical context."],
     contact |->
        [title |-> "Contact - Get in Touch",
         description |-> "Get in touch to discuss opportunities, collaborations, or technical challenges.",
         heading |-> "Let's Talk"]]

---------------------------------------------------------------------------
(* Raw records: the frontmatter data the loader hands to a schema.         *)

GoodUrl == "https://github.com/KennethAbadi/ken-portfolio"

\* a project file with only the required keys
MinimalProject ==
    [title |-> Str("Churn analysis"),
     role |-> Str("Data Analyst"),
     year |-> Int1(2023),
     outcomeSummary |-> Str("Cut churn"),
     overview |-> Str("Overview"),
     problem |-> Str("Problem"),
     constraints |-> Arr(<<Str("Two weeks")>>),
     approach |-> Str("Approach"),
     techStack |-> Arr(<<Str("sql"), Str("python")>>),
     impact |-> Obj([qualitative |-> Str("Better decisions")]),
     learnings |-> Arr(<<>>)]

Merge(o, extra) ==
    [k \in DOMAIN o \cup DOMAIN extra |-> IF k \in DOMAIN extra THEN extra[k] ELSE o[k]]

Without(o, ks) == [k \in DOMAIN o \ ks |-> o[k]]

\* a project file with every key of the schema
FullProject ==
    Merge(MinimalProject,
        [duration |-> Str("3 months"),
         teamSize |-> Int1(4),
         impact |-> Obj([metrics |-> Arr(<<Obj([label |-> Str("Churn"), value |-> Str("-12%")]),
                                          Obj([label |-> Str("Churn"), value |-> Str("-3%")])>>),
                         qualitative |-> Str("Better decisions")]),
         featured |-> Bool(TRUE),
         status |-> Str("ongoing"),
         order |-> Int1(1),
         relatedProjects |-> Arr(<<Str("no-such-project")>>),
         githubUrl |-> Str(GoodUrl)])

\* an unfinished project file: title and overview not written yet
DraftProject == Without(MinimalProject, {"title", "overview"})

MinimalJourney ==
    [date |-> Str("2023-05-01"),
     title |-> Str("First dashboard"),
     type |-> Str("milestone"),
     description |-> Str("Shipped")]

FullJourney == Merge(MinimalJourney, [skills |-> Arr(<<Str("sql")>>)])

\* the uses record of the specification's round-trip example
MinimalUses ==
    [category |-> Str("tools"),
     items |-> Arr(<<Obj([name |-> Str("Editor"), description |-> Str("Code editing")])>>),
     order |-> Int1(1)]

FullUses ==
    [category |-> Str("stack"),
     items |-> Arr(<<Obj([name |-> Str("Astro"), description |-> Str("Framework"),
                          url |-> Str("https://astro.build")]),
                     Obj([name |-> Str("Editor"), description |-> Str("Code editing")])>>),
     order |-> Int1(2)]

MinimalTestimonial ==
    [name |-> Str("A. Colleague"),
     role |-> Str("Manager"),
     company |-> Str("Acme"),
     relationship |-> Str("Worked together"),
     quote |-> Str("Great"),
     date |-> DateVal(19478, 0)]

FullTestimonial ==
    Merge(MinimalTestimonial,
        [linkedin |-> Str("https://linkedin.com/in/kennethputra"),
         featured |-> Bool(TRUE)])

Bases(k) ==
    CASE k = "projects"     -> {MinimalProject, FullProject, DraftProject}
      [] k = "journey"      -> {MinimalJourney, FullJourney}
      [] k = "uses"         -> {MinimalUses, FullUses}
      [] k = "testimonials" -> {MinimalTestimonial, FullTestimonial}

\* marks a key the author leaves out
Absent == [t |-> "absent"]

\* the values an author may write for any key
RawValues ==
    { Absent, Null, Bool(TRUE), Bool(FALSE),
      Str(""), Str("not-a-url"), Str("github.com/KennethAbadi"), Str(GoodUrl),
      Str("2023-05-01"), Str("completed"), Str("transition"), Str("stack"),
      Str("Completed"),
      Int1(0), Int1(2023), Num(4047, 2), Num(1, 0), NaN,
      DateVal(19478, 0),
      Arr(<<>>), Arr(<<Str("sql")>>), Arr(<<Int1(2023)>>),
      Arr(<<Obj([name |-> Str("Editor"), description |-> Str("Code editing"),
                 url |-> Str("not-a-url")])>>),
      Arr(<<Obj([name |-> Str("Editor"), description |-> Str("Code editing"),
                 url |-> Int1(0)]),
            Obj([name |-> Str("Astro"), url |-> Str("https://astro.build")])>>),
      Arr(<<Obj([label |-> Str("Churn")])>>),
      Obj([metrics |-> Arr(<<Obj([label |-> Str("Churn")])>>)]),
      Obj([metrics |-> Null, qualitative |-> Str("Better decisions")]) }

ShapeKeys(schema) == {schema.shape[i][1] : i \in DOMAIN schema.shape}

\* the keys an author may write: the schema's, and one it does not know
AuthorKeys(k) == ShapeKeys(collections(k)) \cup {"draft"}

SetKey(o, k, v) ==
    IF v = Absent THEN Without(o, {k}) ELSE Merge(o, [x \in {k} |-> v])

\* the values of a second slip in the same file
SecondValues == {Absent, Null, Str("not-a-url"), Num(4047, 2)}

\* the raw records of collection k: a base file with one key rewritten to
\* any value and one more key rewritten to a second value
RawRecords(k) ==
    { Obj(SetKey(SetKey(b, f, v), g, w)) :
        <<b, f, v, g, w>> \in Bases(k) \X AuthorKeys(k) \X RawValues
                                 \X AuthorKeys(k) \X SecondValues }

---------------------------------------------------------------------------
(* The state machine.                                                      *)

Pending == [status |-> "pending"]

\* one validation call: the loader has read a raw record of collection kind
Init ==
    /\ registry = pagesConfig
    /\ lookups = <<>>
    /\ kind \in Kinds
    /\ raw \in RawRecords(kind)
    /\ result = Pending
    /\ batch = <<>>
    /\ outcomes = <<>>

\* the schema of collection k validates the raw record
Validate(k) ==
    /\ kind = k
    /\ result = Pending
    /\ result' = safeParse(collections(k), raw)
    /\ UNCHANGED <<registry, lookups, kind, raw, batch, outcomes>>

ValidateProject     == Validate("projects")
ValidateJourney     == Validate("journey")
ValidateUses        == Validate("uses")
ValidateTestimonial == Validate("testimonials")

Next ==
    \/ ValidateProject
    \/ ValidateJourney
    \/ ValidateUses
    \/ ValidateTestimonial

Spec == Init /\ [][Next]_vars

---------------------------------------------------------------------------
(* Vocabulary of the properties of one validation call.                    *)

Done      == result # Pending
Succeeded == Done /\ result.success
Failed    == Done /\ ~result.success

Present(key)  == key \in DOMAIN raw.o
RawField(key) == Get(raw.o, key)

IssueAt(path) == \E i \in DOMAIN result.error : result.error[i].path = path

IssueAtWith(path, code) ==
    \E i \in DOMAIN result.error :
        result.error[i].path = path /\ result.error[i].code = code

IssueUnder(key) ==
    \E i \in DOMAIN result.error :
        Len(result.error[i].path) >= 1 /\ result.error[i].path[1] = key

IssuePaths == {result.error[i].path : i \in DOMAIN result.error}

FieldSchema(k, key) ==
    LET shape == collections(k).shape
    IN  shape[CHOOSE i \in DOMAIN shape : shape[i][1] = key][2]

\* whether the value written for key, taken alone, violates the key's schema
FieldViolated(key) ==
    parse(FieldSchema(kind, key), RawField(key), <<key>>).issues # <<>>

ViolatedKeys == {key \in ShapeKeys(collections(kind)) : FieldViolated(key)}

DraftBadUrl == Obj(SetKey(DraftProject, "githubUrl", Str("not-a-url")))

\* C1: a raw record of any collection that violates one or more keys fails
\* once, with no typed record, and the report has an issue under every
\* violated key; the draft project without title and overview and with a
\* malformed githubUrl is reported on exactly these three paths.
C1_AllViolationsReported ==
    Done =>
        /\ ViolatedKeys # {} =>
                /\ ~result.success
                /\ DOMAIN result = {"success", "error"}
                /\ \A key \in ViolatedKeys : IssueUnder(key)
        /\ (kind = "projects" /\ raw = DraftBadUrl) =>
                /\ ~result.success
                /\ IssuePaths = {<<"title">>, <<"overview">>, <<"githubUrl">>}
                /\ Len(result.error) = 3

C1_Witness ==
    /\ Failed
    /\ kind = "projects"
    /\ raw = DraftBadUrl
    /\ Cardinality(ViolatedKeys) = 3

EnumKeys(k) ==
    CASE k = "projects" -> {"status"}
      [] k = "journey"  -> {"type"}
      [] k = "uses"     -> {"category"}
      [] OTHER          -> {}

EnumMembers(k) ==
    CASE k = "projects" -> {"completed", "ongoing", "archived"}
      [] k = "journey"  -> {"milestone", "learning", "transition"}
      [] k = "uses"     -> {"tools", "stack"}
      [] OTHER          -> {}

\* C2: a record whose enumeration key (status, type, category) is present
\* with a value outside the closed set fails with an issue at that key, and
\* a record that validates keeps the value it wrote for the key.
C2_EnumClosed ==
    Done =>
        \A key \in EnumKeys(kind) :
            Present(key) =>
                /\ RawField(key) \notin {Str(m) : m \in EnumMembers(kind)} =>
                        ~result.success /\ IssueAt(<<key>>)
                /\ result.success => result.data.o[key] = RawField(key)

C2_Witness ==
    /\ Failed
    /\ kind = "projects"
    /\ RawField("status") = Str("Completed")
    /\ IssuePaths = {<<"status">>}

DefaultedKeys(k) ==
    CASE k = "projects"     -> {"featured", "status"}
      [] k = "testimonials" -> {"featured"}
      [] OTHER              -> {}

OthersValid(keys) == ViolatedKeys \subseteq keys

\* the typed output holds key, with value v
OutputHas(key, v) == key \in DOMAIN result.data.o /\ result.data.o[key] = v

\* C3: an otherwise valid project without featured and status validates to
\* featured = false and status = "completed", an otherwise valid testimonial
\* without featured to featured = false, and no successful output lacks a
\* defaulted key.
C3_DefaultsApplied ==
    Done =>
        /\ (/\ kind = "projects"
            /\ ~Present("featured") /\ ~Present("status")
            /\ OthersValid({"featured", "status"})) =>
                /\ result.success
                /\ OutputHas("featured", Bool(FALSE))
                /\ OutputHas("status", Str("completed"))
        /\ (/\ kind = "testimonials"
            /\ ~Present("featured")
            /\ OthersValid({"featured"})) =>
                /\ result.success
                /\ OutputHas("featured", Bool(FALSE))
        /\ result.success =>
                \A key \in DefaultedKeys(kind) :
                    /\ key \in DOMAIN result.data.o
                    /\ result.data.o[key] # Undefined

C3_Witness ==
    /\ Succeeded
    /\ kind = "projects"
    /\ ~Present("featured") /\ ~Present("status")
    /\ result.data.o.status = Str("completed")

\* a raw value that is a calendar date: a date string or a valid Date object
CalendarDateInput(v) ==
    \/ v.t = "string" /\ DateParse(v.s) # InvalidDate
    \/ v.t = "date" /\ v # InvalidDate

DateKinds == {"journey", "testimonials"}

\* C4: a journey entry or testimonial whose date is missing or is no
\* calendar date (null, a boolean, a number, empty input) fails with an
\* issue at date.
C4_UnparseableDateFails ==
    (Done /\ kind \in DateKinds /\ ~CalendarDateInput(RawField("date"))) =>
        ~result.success /\ IssueAt(<<"date">>)

NumericKeys(k) ==
    CASE k = "projects" -> {"year", "teamSize", "order"}
      [] k = "uses"     -> {"order"}
      [] OTHER          -> {}

IsInteger(v) == v.t = "number" /\ v.den = 1

\* C5: a record whose year, teamSize or order is present and is not an
\* integer (not a number, or a number such as 2023.5) fails with an issue
\* at that key.
C5_NumbersAreIntegers ==
    Done =>
        \A key \in NumericKeys(kind) :
            (Present(key) /\ ~IsInteger(RawField(key))) =>
                ~result.success /\ IssueAt(<<key>>)

\* the URL values a raw record writes, each with its path and the path's
\* parent (the uses items that are objects)
ItemSites ==
    LET items == RawField("items") IN
    IF items.t # "array" THEN {}
    ELSE {[path |-> <<"items", ToString(i - 1), "url">>, v |-> items.a[i].o.url,
           index |-> i] :
            i \in {j \in DOMAIN items.a :
                      items.a[j].t = "object" /\ "url" \in DOMAIN items.a[j].o}}

UrlSites ==
    CASE kind = "projects" ->
            IF Present("githubUrl")
            THEN {[path |-> <<"githubUrl">>, v |-> RawField("githubUrl"), index |-> 0]}
            ELSE {}
      [] kind = "testimonials" ->
            IF Present("linkedin")
            THEN {[path |-> <<"linkedin">>, v |-> RawField("linkedin"), index |-> 0]}
            ELSE {}
      [] kind = "uses" -> ItemSites
      [] OTHER -> {}

WellFormedUrl(v) == v.t = "string" /\ UrlParses(v.s)

\* the value the typed output holds where the raw record wrote a URL
OutputUrl(site) ==
    IF site.index = 0 THEN result.data.o[site.path[1]]
    ELSE result.data.o.items.a[site.index].o.url

\* C6 as stated: every URL value that is present and is not a well-formed
\* absolute URL fails validation with a format violation at its path, and a
\* well-formed value reaches the typed output unchanged.
C6_MalformedUrlIsFormatViolation ==
    Done =>
        \A site \in UrlSites :
            /\ ~WellFormedUrl(site.v) =>
                    ~result.success /\ IssueAtWith(site.path, "invalid_string")
            /\ result.success => OutputUrl(site) = site.v

\* C6 amended: every URL value that is present and is not a well-formed
\* absolute URL fails validation with an issue at its path, a format
\* violation when the value is a string and a type mismatch when it is not;
\* a well-formed value reaches the typed output unchanged.
C6_MalformedUrlFails ==
    Done =>
        \A site \in UrlSites :
            /\ ~WellFormedUrl(site.v) =>
                    /\ ~result.success
                    /\ IssueAtWith(site.path,
                            IF site.v.t = "string" THEN "invalid_string"
                            ELSE "invalid_type")
            /\ result.success => OutputUrl(site) = site.v

C6_Witness ==
    /\ Failed
    /\ kind = "testimonials"
    /\ RawField("linkedin") = Str("not-a-url")
    /\ IssuePaths = {<<"linkedin">>}
    /\ IssueAtWith(<<"linkedin">>, "invalid_string")

OptionalKeys(k) ==
    CASE k = "projects" ->
            {"duration", "teamSize", "order", "relatedProjects", "githubUrl"}
      [] k = "journey"      -> {"skills"}
      [] k = "testimonials" -> {"linkedin"}
      [] OTHER              -> {}

\* the keys whose value zod hands on as it is (date is coerced to a Date)
CarriedKeys(k) == ShapeKeys(collections(k)) \ {"date"}

UsesExample ==
    Obj([category |-> Str("tools"),
         items |-> Arr(<<Obj([name |-> Str("Editor"),
                              description |-> Str("Code editing")])>>),
         order |-> Int1(1)])

---------------------------------------------------------------------------
(* Reading the page metadata registry.                                     *)

MaxLookups == 3

NoRecord ==
    /\ registry = pagesConfig
    /\ lookups = <<>>
    /\ kind = "none"
    /\ raw = Undefined
    /\ result = Pending
    /\ batch = <<>>
    /\ outcomes = <<>>

InitPages == NoRecord

\* a lookup that writes the heading default (the title) into the registry
Lookup_fillHeading(p) ==
    /\ Len(lookups) < MaxLookups
    /\ registry' = [registry EXCEPT ![p] = Merge([heading |-> @.title], @)]
    /\ lookups' = Append(lookups, [page |-> p, meta |-> registry'[p]])
    /\ UNCHANGED <<kind, raw, result, batch, outcomes>>

\* pagesConfig[p]: a page reads its metadata record
Lookup(p) ==
    /\ Len(lookups) < MaxLookups
    /\ lookups' = Append(lookups, [page |-> p, meta |-> registry[p]])
    /\ UNCHANGED <<registry, kind, raw, result, batch, outcomes>>

NextPages == \E p \in PageIds : Lookup(p)

SpecPages == InitPages /\ [][NextPages]_vars

\* C8: after any sequence of lookups the registry is the five-key mapping it
\* was built as, every record in it has a non-empty title and description,
\* and every lookup returned the record of its page.
C8_RegistryClosed ==
    /\ DOMAIN registry = {"home", "projects", "journey", "uses", "contact"}
    /\ registry = pagesConfig
    /\ \A p \in DOMAIN registry :
            registry[p].title # "" /\ registry[p].description # ""
    /\ \A i \in DOMAIN lookups :
            /\ lookups[i].meta = pagesConfig[lookups[i].page]
            /\ lookups[i].meta.title # ""
            /\ lookups[i].meta.description # ""

C8_Witness ==
    /\ Len(lookups) >= 3
    /\ lookups[1].page = "home"
    /\ lookups[2].page = "contact"
    /\ lookups[3].page = "home"
    /\ lookups[3].meta.title = "Home"

---------------------------------------------------------------------------
(* A batch: the loaders hand over entries, which are validated in any      *)
(* order.                                                                  *)

MaxBatch == 3

Entry(c, id, data) == [collection |-> c, id |-> id, data |-> data]

BatchEntries ==
    { Entry("projects", "churn-analysis", Obj(FullProject)),
      Entry("projects", "sales-dashboard",
            Obj(Merge(MinimalProject,
                      [relatedProjects |-> Arr(<<Str("churn-analysis")>>)]))),
      Entry("projects", "draft", DraftBadUrl),
      Entry("journey", "first-dashboard", Obj(MinimalJourney)),
      Entry("uses", "tools", UsesExample),
      Entry("testimonials", "colleague",
            Obj(Merge(FullTestimonial, [linkedin |-> Str("not-a-url")]))) }

InitBatch == NoRecord

\* a loader reads one more file (the same file may be read again)
Load(e) ==
    /\ Len(batch) < MaxBatch
    /\ batch' = Append(batch, e)
    /\ outcomes' = Append(outcomes, Pending)
    /\ UNCHANGED <<registry, lookups, kind, raw, result>>

\* the schemas sharing one issue list: a report starts with the issues of
\* the failures reported before it
parseEntry_sharedIssues(i) ==
    LET r == safeParse(collections(batch[i].collection), batch[i].data)
        earlier == {k \in DOMAIN outcomes : outcomes[k] # Pending /\ ~outcomes[k].success}
    IN  IF r.success \/ earlier = {} THEN r
        ELSE [success |-> FALSE,
              error |-> outcomes[CHOOSE k \in earlier : TRUE].error \o r.error]

\* a project schema that checks relatedProjects against the loaded projects
parseEntry_refCheck(i) ==
    LET r == safeParse(collections(batch[i].collection), batch[i].data)
        slugs == {batch[k].id : k \in {n \in DOMAIN batch : batch[n].collection = "projects"}}
    IN  IF /\ r.success
           /\ batch[i].collection = "projects"
           /\ "relatedProjects" \in DOMAIN r.data.o
           /\ \E n \in DOMAIN r.data.o.relatedProjects.a :
                    r.data.o.relatedProjects.a[n].s \notin slugs
        THEN [success |-> FALSE,
              error |-> <<[path |-> <<"relatedProjects">>, code |-> "custom",
                           received |-> "array"]>>]
        ELSE r

\* the outcome of entry i: its collection's schema applied to its data
parseEntry(i) == safeParse(collections(batch[i].collection), batch[i].data)

ValidateEntry(i) ==
    /\ outcomes[i] = Pending
    /\ outcomes' = [outcomes EXCEPT ![i] = parseEntry(i)]
    /\ UNCHANGED <<registry, lookups, kind, raw, result, batch>>

NextBatch ==
    \/ \E e \in BatchEntries : Load(e)
    \/ \E i \in DOMAIN batch : ValidateEntry(i)

SpecBatch == InitBatch /\ [][NextBatch]_vars

Validated(i) == outcomes[i] # Pending

C10_Independent ==
    \A i \in DOMAIN batch :
        Validated(i) =>
            /\ outcomes[i] = safeParse(collections(batch[i].collection), batch[i].data)
            /\ batch[i].id = "churn-analysis" =>
                    /\ outcomes[i].success
                    /\ outcomes[i].data.o.relatedProjects
                            = Arr(<<Str("no-such-project")>>)

C10_Witness ==
    /\ Len(batch) >= 2
    /\ batch[1].id = "draft"
    /\ batch[2].id = "churn-analysis"
    /\ ~Validated(1)
    /\ Validated(2)
    /\ outcomes[2].success
    /\ "no-such-project" \notin {batch[k].id : k \in DOMAIN batch}

====
